---------------------------- MODULE Spec2Model ----------------------------
(*************************************************************************)
(* The 'update' command of Trade-Dangerous (commands/update_cmd.py): the *)
(* price list of a station is dumped to prices.tmp, an external editor   *)
(* (or the GUI) lets the operator change it, the result is re-imported   *)
(* and prices.tmp is deleted or rotated to prices.last.                  *)
(*                                                                       *)
(* Strings are sequences of symbols: a symbol is a run of characters     *)
(* that the code never looks inside ("Program Files", "-a"), separators  *)
(* (" ", ":", ";", "/", "\\") are symbols of their own.                  *)
(*************************************************************************)
EXTENDS Integers, Sequences, FiniteSets, TLC

(*************************************************************************)
(* Bounds of the model.                                                  *)
(*************************************************************************)
\* timestamps of prices.tmp range over 0..MaxStamp
MaxStamp == 1
\* number of invocations of the command in one behaviour
MaxInvocations == 2
\* exit statuses of the editor process range over 0..MaxExit
MaxExit == 1

None == "None"

Max(a, b) == IF a >= b THEN a ELSE b

(*************************************************************************)
(* str.split(sep): the pieces between the occurrences of sep; n          *)
(* separators give n+1 pieces, empty pieces included.                    *)
(*************************************************************************)
RECURSIVE SplitFrom(_, _, _)
SplitFrom(s, sep, cur) ==
    IF s = <<>> THEN <<cur>>
    ELSE IF Head(s) = sep THEN <<cur>> \o SplitFrom(Tail(s), sep, <<>>)
    ELSE SplitFrom(Tail(s), sep, Append(cur, Head(s)))

split(s, sep) == SplitFrom(s, sep, <<>>)

(*************************************************************************)
(* platform.system(), os.pathsep and os.path.join of the two platform    *)
(* families.                                                             *)
(*************************************************************************)
Systems == {"Windows", "Linux"}

pathsep(system) == IF system = "Windows" THEN ";" ELSE ":"

\* os.path.join(path, binary) for a relative binary: no separator after an
\* empty path or a path that already ends in one (ntpath: or in a colon).
join(system, path, binary) ==
    LET sep  == IF system = "Windows" THEN "\\" ELSE "/"
        ends == IF system = "Windows" THEN {"\\", "/", ":"} ELSE {"/"}
    IN  IF path = <<>> THEN binary
        ELSE IF path[Len(path)] \in ends THEN path \o binary
        ELSE path \o <<sep>> \o binary


(*************************************************************************)
(* Exceptions are records: the class, the text of the message and the    *)
(* strings formatted into it.                                            *)
(*************************************************************************)
Exc(type, msg, detail) == [type |-> type, msg |-> msg, detail |-> detail]

(*************************************************************************)
(* getEditorPaths.  environ is os.environ (a function from the names that*)
(* are set to their values), disk says which candidate files exist and   *)
(* for which the existence test raises OSError.  The result records what *)
(* is returned or raised and, in order, the candidates whose existence   *)
(* was tested.                                                           *)
(*************************************************************************)
NoExc == Exc(None, "", <<>>)

\* a Python str that is None or "" (the code only tests its truthiness)
NoStr == <<>>
Truthy(str) == str # NoStr

Returned(value, probes) == [raised |-> NoExc, value |-> value, probes |-> probes]
Raised(exc, probes) == [raised |-> exc, value |-> NoStr, probes |-> probes]

ProgramFolders == <<"Program Files", "Program Files (x86)">>

\* "{}\\{}\\{}".format(os.environ['SystemDrive'], folder, version) for
\* folder in ProgramFolders (outer loop) for version in windowsFolders
windowsPaths(drive, windowsFolders) ==
    LET n == Len(windowsFolders)
    IN  [i \in 1..(Len(ProgramFolders) * n) |->
            drive \o <<"\\", ProgramFolders[((i - 1) \div n) + 1], "\\">>
                  \o windowsFolders[((i - 1) % n) + 1]]

\* paths += os.environ['PATH'].split(os.pathsep), KeyError passed over
searchPaths(environ, system) ==
    IF "PATH" \in DOMAIN environ
    THEN split(environ["PATH"], pathsep(system))
    ELSE <<>>

\* for path in paths: the first candidate that exists is returned; an
\* OSError of the existence test is passed over
RECURSIVE scanPaths(_, _, _, _, _)
scanPaths(system, disk, paths, binary, probes) ==
    IF paths = <<>> THEN [found |-> FALSE, value |-> NoStr, probes |-> probes]
    ELSE LET candidate == join(system, Head(paths), binary)
             seen == Append(probes, candidate)
         IN  IF candidate \notin disk.oserr /\ candidate \in disk.files
             THEN [found |-> TRUE, value |-> candidate, probes |-> seen]
             ELSE scanPaths(system, disk, Tail(paths), binary, seen)

\* mutant: the value of the override variable is used only if a file exists there
getEditorPaths_checked(environ, system, disk, editorName, envVar, windowsFolders, winExe, nixExe) ==
    IF envVar \in DOMAIN environ /\ environ[envVar] \in disk.files
    THEN Returned(environ[envVar], <<environ[envVar]>>)
    ELSE IF system = "Windows" /\ "SystemDrive" \notin DOMAIN environ
    THEN Raised(Exc("KeyError", "", << <<"SystemDrive">> >>), <<>>)
    ELSE LET binary == IF system = "Windows" THEN winExe ELSE nixExe
             paths == (IF system = "Windows"
                       THEN windowsPaths(environ["SystemDrive"], windowsFolders)
                       ELSE <<>>) \o searchPaths(environ, system)
             scan == scanPaths(system, disk, paths, binary, <<>>)
         IN  IF scan.found THEN Returned(scan.value, scan.probes)
             ELSE Raised(Exc("CommandLineError", "Unable to locate editor",
                             << <<editorName>>, <<envVar>> >>),
                         scan.probes)

getEditorPaths(environ, system, disk, editorName, envVar, windowsFolders, winExe, nixExe) ==
    IF envVar \in DOMAIN environ THEN Returned(environ[envVar], <<>>)
    ELSE IF system = "Windows" /\ "SystemDrive" \notin DOMAIN environ
    THEN Raised(Exc("KeyError", "", << <<"SystemDrive">> >>), <<>>)
    ELSE LET binary == IF system = "Windows" THEN winExe ELSE nixExe
             paths == (IF system = "Windows"
                       THEN windowsPaths(environ["SystemDrive"], windowsFolders)
                       ELSE <<>>) \o searchPaths(environ, system)
             scan == scanPaths(system, disk, paths, binary, <<>>)
         IN  IF scan.found THEN Returned(scan.value, scan.probes)
             ELSE Raised(Exc("CommandLineError", "Unable to locate editor",
                             << <<editorName>>, <<envVar>> >>),
                         scan.probes)

(*************************************************************************)
(* State.  tmp and last are the files prices.tmp and prices.last of the  *)
(* working directory; inv[p] holds the command line, the local variables *)
(* and the position of the invocation running in window p, together with *)
(* a record of the calls it has made (imports, launches, dumps), of what *)
(* whether it got the temporary path (acquired), of what the editor left *)
(* in prices.tmp (left) and of what the two files held                   *)
(* when the invocation began (tmp0, last0); invocations counts the       *)
(* invocations started.  rin and rout are the input and the result of the editor set *)
(* up on its own (specification SpecSetup).                              *)
(*************************************************************************)
VARIABLES tmp, last, inv, invocations, rin, rout, plugin

vars == <<tmp, last, inv, invocations, rin, rout, plugin>>

Procs == {1, 2}

NoFile == [exists |-> FALSE]
\* what a file holds, without its timestamps
Held(file) == IF file.exists THEN [exists |-> TRUE, content |-> file.content] ELSE NoFile
File(content, mtime, ctime) ==
    [exists |-> TRUE, content |-> content, mtime |-> mtime, ctime |-> ctime]

Stamps == 0..MaxStamp
NoStamp == 0 - 1
NoResult == 0 - 1

TmpName == <<"prices.tmp">>
\* str(tmpPath.resolve())
AbsoluteTmp == <<"/", "cwd", "/", "prices.tmp">>

\* merge: rec with the fields of upd replaced
With(rec, upd) == upd @@ rec

(*************************************************************************)
(* editUpdate, lines 174-204: the editor and its arguments.  located is  *)
(* the outcome of the call of getEditorPaths, if one was made.           *)
(*************************************************************************)
NotLocated == [called |-> FALSE, raised |-> NoExc, value |-> NoStr, probes |-> <<>>]
Located(r) == [called |-> TRUE, raised |-> r.raised, value |-> r.value, probes |-> r.probes]

vimDirs ==
    [i \in 1..5 |-> <<"Git", "\\", "share", "\\", "vim", "\\", "vim", ToString(69 + i)>>]

\* the arguments of the calls of getEditorPaths, lines 177-194
editorSpec(editing) ==
    CASE editing = "sublime" ->
            [editorName |-> "sublime", envVar |-> "SUBLIME_EDITOR",
             windowsFolders |-> << <<"Sublime Text 3">>, <<"Sublime Text 2">> >>,
             winExe |-> <<"sublime_text.exe">>, nixExe |-> <<"subl">>]
      [] editing = "npp" ->
            [editorName |-> "notepad++", envVar |-> "NOTEPADPP_EDITOR",
             windowsFolders |-> << <<"Notepad++">> >>,
             winExe |-> <<"notepad++.exe">>, nixExe |-> <<"notepad++">>]
      [] editing = "vim" ->
            [editorName |-> "vim", envVar |-> "EDITOR",
             windowsFolders |-> vimDirs,
             winExe |-> <<"vim.exe">>, nixExe |-> <<"vim">>]

\* editor = editor or getEditorPaths(...); in vim mode, if not editor: ...
locateEditor(cmdenv, environ, system, disk) ==
    IF ~Truthy(cmdenv.editor) /\ cmdenv.editing \in {"sublime", "npp", "vim"}
    THEN LET e == editorSpec(cmdenv.editing)
         IN  Located(getEditorPaths(environ, system, disk, e.editorName, e.envVar,
                                    e.windowsFolders, e.winExe, e.nixExe))
    ELSE NotLocated

\* editorArgs += [ "--wait" ] in sublime mode
defaultArgs(cmdenv) ==
    IF cmdenv.editing = "sublime" THEN << <<"--wait">> >> ELSE <<>>

\* lines 199-204: EDITOR_ARGS, when set and not empty, split at each space
envArgs(environ) ==
    IF "EDITOR_ARGS" \in DOMAIN environ /\ Truthy(environ["EDITOR_ARGS"])
    THEN split(environ["EDITOR_ARGS"], " ")
    ELSE <<>>

editorSetup(cmdenv, environ, system, disk) ==
    LET loc == locateEditor(cmdenv, environ, system, disk)
    IN  IF loc.called /\ loc.raised # NoExc
        THEN [raised |-> loc.raised, editor |-> NoStr, editorArgs |-> <<>>,
              located |-> loc]
        ELSE [raised |-> NoExc,
              editor |-> IF loc.called THEN loc.value
                         ELSE IF cmdenv.editing = "notepad" /\ ~Truthy(cmdenv.editor)
                         THEN <<"notepad.exe">>
                         ELSE cmdenv.editor,
              editorArgs |-> defaultArgs(cmdenv) \o envArgs(environ),
              located |-> loc]

\* line 231: [ editor ] + editorArgs + [ absoluteFilename ]
editorCommandLine(editor, editorArgs, absoluteFilename) ==
    <<editor>> \o editorArgs \o <<absoluteFilename>>

(*************************************************************************)
(* Command lines (cmdenv) and environments of the invocations.           *)
(*************************************************************************)
Modes ==
    { [editor |-> <<"myeditor">>, editing |-> None, gui |-> FALSE],
      [editor |-> NoStr, editing |-> "sublime", gui |-> FALSE],
      [editor |-> NoStr, editing |-> None, gui |-> TRUE],
      [editor |-> NoStr, editing |-> None, gui |-> FALSE] }

CmdEnvs ==
    { [force |-> f, editor |-> m.editor, editing |-> m.editing, gui |-> m.gui] :
        f \in BOOLEAN, m \in Modes }

NoCmd == [force |-> FALSE, editor |-> NoStr, editing |-> None, gui |-> FALSE]

NoDisk == [files |-> {}, oserr |-> {}]

RunEnvs ==
    { [system |-> "Linux",
       environ |-> [PATH |-> <<"/bin">>, EDITOR_ARGS |-> <<"-n">>],
       disk |-> [files |-> {<<"/bin", "/", "subl">>}, oserr |-> {}]],
      [system |-> "Linux",
       environ |-> [PATH |-> <<"/bin">>],
       disk |-> NoDisk] }

\* the contents a file can have: what wrote it, in which invocation
Content(kind, id) == <<kind, ToString(id)>>

Idle ==
    [pc |-> "idle", id |-> 0, cmdenv |-> NoCmd,
     editor |-> NoStr, editorArgs |-> <<>>, located |-> NotLocated,
     tmpPath |-> NoStr, absoluteFilename |-> NoStr,
     acquired |-> FALSE, preStamp |-> NoStamp, postStamp |-> NoStamp,
     result |-> NoResult, exc |-> NoExc,
     imports |-> <<>>, launches |-> <<>>, dumps |-> 0,
     left |-> NoFile, tmp0 |-> NoFile, last0 |-> NoFile]

Goto(p, upd) == inv' = [inv EXCEPT ![p] = With(@, upd)]

\* the invocation ends: exc, if any, reaches the caller of run
Leave(p, exc) == Goto(p, [pc |-> "done", exc |-> exc])

\* an exception raised inside the try block of editUpdate
Fail(p, exc) == Goto(p, [pc |-> "finally", exc |-> exc])

IsGuided(r) == ~Truthy(r.cmdenv.editor) /\ r.cmdenv.editing = None

InProgress(p) == inv[p].pc \notin {"idle", "done"}

NoSetup == [system |-> "Linux", environ |-> [PATH |-> <<>>], disk |-> NoDisk, cmdenv |-> NoCmd]

\* no import plugin has been loaded
NoPlugin == [state |-> "NoPlugin", impl |-> {}, skip |-> FALSE, calls |-> <<>>,
             exc |-> NoExc, runs |-> 0]

Init ==
    /\ tmp \in {NoFile, File(Content("stale", 0), 0, 0)}
    /\ last \in {NoFile, [exists |-> TRUE, content |-> Content("old", 0)]}
    /\ inv = [p \in Procs |-> Idle]
    /\ invocations = 0
    /\ rin = NoSetup
    /\ rout = <<>>
    /\ plugin = NoPlugin

\* mutant: editUpdate gets the temporary path before it sets up the editor
run_acquireFirst(p) ==
    /\ ~InProgress(p)
    /\ invocations < MaxInvocations
    /\ invocations' = invocations + 1
    /\ \E cmdenv \in CmdEnvs :
        LET new == With(Idle, [id |-> invocations + 1, cmdenv |-> cmdenv,
                               tmp0 |-> Held(tmp), last0 |-> last])
        IN  inv' = [inv EXCEPT ![p] =
                IF ~Truthy(cmdenv.editor) /\ cmdenv.editing = None /\ ~cmdenv.gui
                THEN With(new, [pc |-> "done",
                                exc |-> Exc("CommandLineError",
                                    "The GUI for updates is currently experimental",
                                    <<>>)])
                ELSE With(new, [pc |-> "getTemporaryPath"])]
    /\ UNCHANGED <<tmp, last, rin, rout, plugin>>

(*************************************************************************)
(* run, lines 301-315.                                                   *)
(*************************************************************************)
run(p) ==
    /\ ~InProgress(p)
    /\ invocations < MaxInvocations
    /\ invocations' = invocations + 1
    /\ \E cmdenv \in CmdEnvs :
        LET new == With(Idle, [id |-> invocations + 1, cmdenv |-> cmdenv,
                               tmp0 |-> Held(tmp), last0 |-> last])
        IN  inv' = [inv EXCEPT ![p] =
                IF ~Truthy(cmdenv.editor) /\ cmdenv.editing = None
                THEN IF cmdenv.gui
                     THEN With(new, [pc |-> "getTemporaryPath"])
                     ELSE With(new, [pc |-> "done",
                                     exc |-> Exc("CommandLineError",
                                         "The GUI for updates is currently experimental",
                                         <<>>)])
                ELSE With(new, [pc |-> "editorSetup"])]
    /\ UNCHANGED <<tmp, last, rin, rout, plugin>>

(*************************************************************************)
(* editUpdate, lines 174-204: a failure to locate the editor leaves      *)
(* editUpdate before the temporary file is looked at.                    *)
(*************************************************************************)
editUpdate_editorSetup(p) ==
    /\ inv[p].pc = "editorSetup"
    /\ \E e \in RunEnvs :
        LET r == editorSetup(inv[p].cmdenv, e.environ, e.system, e.disk)
        IN  IF r.raised # NoExc
            THEN Goto(p, [pc |-> "done", exc |-> r.raised, located |-> r.located])
            ELSE Goto(p, [pc |-> "getTemporaryPath", editor |-> r.editor,
                          editorArgs |-> r.editorArgs, located |-> r.located])
    /\ UNCHANGED <<tmp, last, invocations, rin, rout, plugin>>

(*************************************************************************)
(* getTemporaryPath, lines 102-112, called by editUpdate (line 207) and  *)
(* guidedUpdate (line 281), outside their try blocks.                    *)
(*************************************************************************)
getTemporaryPath_return(r) ==
    With(r, [pc |-> IF IsGuided(r) THEN "render" ELSE "open", tmpPath |-> TmpName,
             acquired |-> TRUE])

\* mutant: the existing file is saved as prices.last before the error is raised
getTemporaryPath_exists_saved(p) ==
    /\ inv[p].pc = "getTemporaryPath"
    /\ IF tmp.exists
       THEN IF ~inv[p].cmdenv.force
            THEN /\ Leave(p, Exc("TemporaryFileExistsError",
                                 "Temporary file already exists", <<TmpName>>))
                 /\ last' = Held(tmp)
                 /\ tmp' = NoFile
            ELSE /\ Goto(p, [pc |-> "getTemporaryPath_unlink"])
                 /\ UNCHANGED <<tmp, last>>
       ELSE /\ inv' = [inv EXCEPT ![p] = getTemporaryPath_return(@)]
            /\ UNCHANGED <<tmp, last>>
    /\ UNCHANGED <<invocations, rin, rout, plugin>>

\* mutant: an existing file is deleted whether or not force is set
getTemporaryPath_exists_forced(p) ==
    /\ inv[p].pc = "getTemporaryPath"
    /\ IF tmp.exists
       THEN Goto(p, [pc |-> "getTemporaryPath_unlink"])
       ELSE inv' = [inv EXCEPT ![p] = getTemporaryPath_return(@)]
    /\ UNCHANGED <<tmp, last, invocations, rin, rout, plugin>>

\* the test of line 104 and, when the file exists, of line 105
getTemporaryPath_exists(p) ==
    /\ inv[p].pc = "getTemporaryPath"
    /\ IF tmp.exists
       THEN IF ~inv[p].cmdenv.force
            THEN Leave(p, Exc("TemporaryFileExistsError",
                              "Temporary file already exists", <<TmpName>>))
            ELSE Goto(p, [pc |-> "getTemporaryPath_unlink"])
       ELSE inv' = [inv EXCEPT ![p] = getTemporaryPath_return(@)]
    /\ UNCHANGED <<tmp, last, invocations, rin, rout, plugin>>

\* mutant: with force set the existing file is rotated to prices.last
getTemporaryPath_unlink_rotated(p) ==
    /\ inv[p].pc = "getTemporaryPath_unlink"
    /\ tmp.exists
    /\ last' = Held(tmp)
    /\ tmp' = NoFile
    /\ inv' = [inv EXCEPT ![p] = getTemporaryPath_return(@)]
    /\ UNCHANGED <<invocations, rin, rout, plugin>>

\* line 111
getTemporaryPath_unlink(p) ==
    /\ inv[p].pc = "getTemporaryPath_unlink"
    /\ IF tmp.exists
       THEN /\ tmp' = NoFile
            /\ inv' = [inv EXCEPT ![p] = getTemporaryPath_return(@)]
       ELSE /\ Leave(p, Exc("FileNotFoundError", "", <<TmpName>>))
            /\ UNCHANGED tmp
    /\ UNCHANGED <<last, invocations, rin, rout, plugin>>

(*************************************************************************)
(* editUpdate, the try block of lines 211-271.                           *)
(*************************************************************************)
\* lines 216-218: open("w") creates or truncates prices.tmp, or fails and
\* creates nothing
editUpdate_open(p) ==
    /\ inv[p].pc = "open"
    /\ \/ /\ \E t \in Stamps : tmp' = File(Content("empty", inv[p].id), t, t)
          /\ Goto(p, [pc |-> "dump", absoluteFilename |-> AbsoluteTmp])
       \/ /\ Fail(p, Exc("OSError", "", <<TmpName>>))
          /\ UNCHANGED tmp
    /\ UNCHANGED <<last, invocations, rin, rout, plugin>>

\* lines 219-223 and the end of the with block: dumpPrices writes the
\* snapshot through the open file, or raises after writing part of it
editUpdate_dumpPrices(p) ==
    /\ inv[p].pc = "dump"
    /\ \E ok \in BOOLEAN, m \in Stamps, c \in Stamps :
        /\ tmp' = IF tmp.exists
                  THEN File(Content(IF ok THEN "dump" ELSE "partial", inv[p].id), m, c)
                  ELSE tmp
        /\ IF ok
           THEN Goto(p, [pc |-> "preStat", dumps |-> inv[p].dumps + 1])
           ELSE Goto(p, [pc |-> "finally", dumps |-> inv[p].dumps + 1,
                         exc |-> Exc("DumpError", "", <<>>)])
    /\ UNCHANGED <<last, invocations, rin, rout, plugin>>

\* max(st_mtime, st_ctime), lines 228 and 251
combinedStamp(file) == Max(file.mtime, file.ctime)

\* lines 227-228
editUpdate_preStat(p) ==
    /\ inv[p].pc = "preStat"
    /\ IF tmp.exists
       THEN Goto(p, [pc |-> "call", preStamp |-> combinedStamp(tmp)])
       ELSE Fail(p, Exc("FileNotFoundError", "", <<TmpName>>))
    /\ UNCHANGED <<tmp, last, invocations, rin, rout, plugin>>

\* lines 231-239: subprocess.call starts the editor, or fails to: only
\* FileNotFoundError is turned into a CommandLineError
editUpdate_call(p) ==
    /\ inv[p].pc = "call"
    /\ LET cmd == editorCommandLine(inv[p].editor, inv[p].editorArgs,
                                    inv[p].absoluteFilename)
           launched == [launches |-> Append(inv[p].launches, cmd)]
       IN  \/ Goto(p, With(launched, [pc |-> "editing"]))
           \/ Goto(p, With(launched, [pc |-> "finally",
                    exc |-> Exc("CommandLineError",
                                "Unable to launch requested editor", cmd)]))
           \/ Goto(p, With(launched, [pc |-> "finally",
                    exc |-> Exc("PermissionError", "", <<>>)]))
    /\ UNCHANGED <<tmp, last, invocations, rin, rout, plugin>>

(*************************************************************************)
(* The editor process, while subprocess.call waits for it: the operator  *)
(* may save the file, with any timestamps the editor and the file system *)
(* leave, and the process ends with an exit status.  Nothing but the     *)
(* command renames or deletes prices.tmp and prices.last.                *)
(*************************************************************************)
Editor_save(p) ==
    /\ inv[p].pc = "editing"
    /\ \E m \in Stamps, c \in Stamps : tmp' = File(Content("edit", inv[p].id), m, c)
    /\ UNCHANGED <<last, inv, invocations, rin, rout, plugin>>

\* mutant: the exit status is not looked at
editUpdate_result_ignored(p) ==
    /\ inv[p].pc = "editing"
    /\ \E result \in 0..MaxExit :
        Goto(p, [pc |-> "postStat", result |-> result, left |-> Held(tmp)])
    /\ UNCHANGED <<tmp, last, invocations, rin, rout, plugin>>

\* subprocess.call returns; lines 240-245
editUpdate_result(p) ==
    /\ inv[p].pc = "editing"
    /\ \E result \in 0..MaxExit :
        IF result # 0
        THEN Goto(p, [pc |-> "finally", result |-> result, left |-> Held(tmp),
                      exc |-> Exc("CommandLineError",
                                  "NO DATA IMPORTED: Your editor exited with a 'failed' exit code",
                                  << <<ToString(result)>> >>)])
        ELSE Goto(p, [pc |-> "postStat", result |-> result, left |-> Held(tmp)])
    /\ UNCHANGED <<tmp, last, invocations, rin, rout, plugin>>

\* mutant: only a newer stamp counts as a change
unchanged_notNewer(postStamp, preStamp) == postStamp <= preStamp

\* line 253: the file counts as unchanged when the stamps are equal
unchanged(postStamp, preStamp) == postStamp = preStamp

\* lines 250-268: the second stat and the comparison
editUpdate_postStat(p) ==
    /\ inv[p].pc = "postStat"
    /\ IF tmp.exists
       THEN LET postStamp == combinedStamp(tmp)
            IN  IF unchanged(postStamp, inv[p].preStamp)
                THEN Goto(p, [pc |-> "unlink", postStamp |-> postStamp])
                ELSE Goto(p, [pc |-> "import", postStamp |-> postStamp])
       ELSE Fail(p, Exc("FileNotFoundError", "", <<TmpName>>))
    /\ UNCHANGED <<tmp, last, invocations, rin, rout, plugin>>

\* line 268: cache.importDataFromFile(tdb, cmdenv, tmpPath) returns or raises
editUpdate_importDataFromFile(p) ==
    /\ inv[p].pc = "import"
    /\ LET called == [imports |-> Append(inv[p].imports, inv[p].tmpPath)]
       IN  \/ Goto(p, With(called, [pc |-> "unlink"]))
           \/ Goto(p, With(called, [pc |-> "finally",
                                    exc |-> Exc("ImportError", "", <<>>)]))
    /\ UNCHANGED <<tmp, last, invocations, rin, rout, plugin>>

\* mutant: the file is not deleted after the session
editUpdate_unlink_kept(p) ==
    /\ inv[p].pc = "unlink"
    /\ Goto(p, [pc |-> "finally"])
    /\ UNCHANGED <<tmp, last, invocations, rin, rout, plugin>>

\* lines 270-271
editUpdate_unlink(p) ==
    /\ inv[p].pc = "unlink"
    /\ IF tmp.exists
       THEN /\ tmp' = NoFile
            /\ Goto(p, [pc |-> "finally", tmpPath |-> NoStr])
       ELSE /\ Fail(p, Exc("FileNotFoundError", "", <<TmpName>>))
            /\ UNCHANGED tmp
    /\ UNCHANGED <<last, invocations, rin, rout, plugin>>

\* mutant: the copy is saved only when the try block ended normally
editUpdate_finally_onSuccess(p) ==
    /\ inv[p].pc = "finally"
    /\ IF Truthy(inv[p].absoluteFilename) /\ Truthy(inv[p].tmpPath) /\ inv[p].exc = NoExc
       THEN Goto(p, [pc |-> "saveTemporaryFile"])
       ELSE Goto(p, [pc |-> "done"])
    /\ UNCHANGED <<tmp, last, invocations, rin, rout, plugin>>

\* lines 273-276: the finally block saves a copy when the file was opened
\* and not yet deleted
editUpdate_finally(p) ==
    /\ inv[p].pc = "finally"
    /\ IF Truthy(inv[p].absoluteFilename) /\ Truthy(inv[p].tmpPath)
       THEN Goto(p, [pc |-> "saveTemporaryFile"])
       ELSE Goto(p, [pc |-> "done"])
    /\ UNCHANGED <<tmp, last, invocations, rin, rout, plugin>>

(*************************************************************************)
(* saveTemporaryFile, lines 115-120, one step per file system call.  An  *)
(* exception of the invocation that is already on its way stays pending  *)
(* unless a call of saveTemporaryFile raises.                            *)
(*************************************************************************)
\* line 116
saveTemporaryFile_exists(p) ==
    /\ inv[p].pc = "saveTemporaryFile"
    /\ IF tmp.exists
       THEN Goto(p, [pc |-> "saveTemporaryFile_last"])
       ELSE Goto(p, [pc |-> "done"])
    /\ UNCHANGED <<tmp, last, invocations, rin, rout, plugin>>

\* mutant: an existing prices.last is kept and prices.tmp is left behind
saveTemporaryFile_lastKept(p) ==
    /\ inv[p].pc = "saveTemporaryFile_last"
    /\ IF last.exists
       THEN Goto(p, [pc |-> "done"])
       ELSE Goto(p, [pc |-> "saveTemporaryFile_rename"])
    /\ UNCHANGED <<tmp, last, invocations, rin, rout, plugin>>

\* line 118
saveTemporaryFile_lastExists(p) ==
    /\ inv[p].pc = "saveTemporaryFile_last"
    /\ IF last.exists
       THEN Goto(p, [pc |-> "saveTemporaryFile_unlink"])
       ELSE Goto(p, [pc |-> "saveTemporaryFile_rename"])
    /\ UNCHANGED <<tmp, last, invocations, rin, rout, plugin>>

\* line 119
saveTemporaryFile_unlink(p) ==
    /\ inv[p].pc = "saveTemporaryFile_unlink"
    /\ IF last.exists
       THEN /\ last' = NoFile
            /\ Goto(p, [pc |-> "saveTemporaryFile_rename"])
       ELSE /\ Leave(p, Exc("FileNotFoundError", "", << <<"prices.last">> >>))
            /\ UNCHANGED last
    /\ UNCHANGED <<tmp, invocations, rin, rout, plugin>>

\* line 120
saveTemporaryFile_rename(p) ==
    /\ inv[p].pc = "saveTemporaryFile_rename"
    /\ IF tmp.exists
       THEN /\ last' = Held(tmp)
            /\ tmp' = NoFile
            /\ Goto(p, [pc |-> "done"])
       ELSE /\ Leave(p, Exc("FileNotFoundError", "", <<TmpName>>))
            /\ UNCHANGED <<tmp, last>>
    /\ UNCHANGED <<invocations, rin, rout, plugin>>

(*************************************************************************)
(* guidedUpdate, lines 279-295.                                          *)
(*************************************************************************)
\* line 285: the GUI writes prices.tmp or not, and returns or raises
guidedUpdate_render(p) ==
    /\ inv[p].pc = "render"
    /\ \E wrote \in BOOLEAN, ok \in BOOLEAN :
        /\ tmp' = IF wrote THEN File(Content("gui", inv[p].id), 0, 0) ELSE tmp
        /\ IF ok
           THEN Goto(p, [pc |-> "guidedImport"])
           ELSE Goto(p, [pc |-> "saveTemporaryFile",
                         exc |-> Exc("RenderError", "", <<>>)])
    /\ UNCHANGED <<last, invocations, rin, rout, plugin>>

\* mutant: saveTemporaryFile is called only when the import returns
guidedUpdate_importDataFromFile_noFinally(p) ==
    /\ inv[p].pc = "guidedImport"
    /\ LET called == [imports |-> Append(inv[p].imports, inv[p].tmpPath)]
       IN  \/ Goto(p, With(called, [pc |-> "saveTemporaryFile"]))
           \/ Goto(p, With(called, [pc |-> "done", exc |-> Exc("ImportError", "", <<>>)]))
    /\ UNCHANGED <<tmp, last, invocations, rin, rout, plugin>>

\* lines 287-295: the import returns or raises; either way the finally
\* block calls saveTemporaryFile
guidedUpdate_importDataFromFile(p) ==
    /\ inv[p].pc = "guidedImport"
    /\ LET called == [pc |-> "saveTemporaryFile",
                      imports |-> Append(inv[p].imports, inv[p].tmpPath)]
       IN  \/ Goto(p, called)
           \/ Goto(p, With(called, [exc |-> Exc("ImportError", "", <<>>)]))
    /\ UNCHANGED <<tmp, last, invocations, rin, rout, plugin>>

(*************************************************************************)
(* The command run in one window, one invocation after the other (Spec), *)
(* and in two windows at once (SpecWindows).                             *)
(*************************************************************************)
Step(p) ==
    \/ run(p)
    \/ editUpdate_editorSetup(p)
    \/ getTemporaryPath_exists(p)
    \/ getTemporaryPath_unlink(p)
    \/ editUpdate_open(p)
    \/ editUpdate_dumpPrices(p)
    \/ editUpdate_preStat(p)
    \/ editUpdate_call(p)
    \/ Editor_save(p)
    \/ editUpdate_result(p)
    \/ editUpdate_postStat(p)
    \/ editUpdate_importDataFromFile(p)
    \/ editUpdate_unlink(p)
    \/ editUpdate_finally(p)
    \/ saveTemporaryFile_exists(p)
    \/ saveTemporaryFile_lastExists(p)
    \/ saveTemporaryFile_unlink(p)
    \/ saveTemporaryFile_rename(p)
    \/ guidedUpdate_render(p)
    \/ guidedUpdate_importDataFromFile(p)

Next == Step(1)

Spec == Init /\ [][Next]_vars

\* two windows, each running the command once on the editor path with an
\* explicit editor and the force flag unset
runWindow(p) ==
    /\ inv[p].pc = "idle"
    /\ invocations' = invocations + 1
    /\ Goto(p, [pc |-> "editorSetup", id |-> invocations + 1,
                cmdenv |-> [force |-> FALSE, editor |-> <<"myeditor">>,
                            editing |-> None, gui |-> FALSE],
                tmp0 |-> Held(tmp), last0 |-> last])
    /\ UNCHANGED <<tmp, last, rin, rout, plugin>>

NextWindows ==
    \E p \in Procs :
        \/ runWindow(p)
        \/ editUpdate_editorSetup(p)
        \/ getTemporaryPath_exists(p)
        \/ editUpdate_open(p)
        \/ editUpdate_dumpPrices(p)
        \/ editUpdate_preStat(p)
        \/ editUpdate_call(p)
        \/ Editor_save(p)
            \/ editUpdate_result(p)
        \/ editUpdate_postStat(p)
        \/ editUpdate_importDataFromFile(p)
        \/ editUpdate_unlink(p)
        \/ editUpdate_finally(p)
        \/ saveTemporaryFile_exists(p)
        \/ saveTemporaryFile_lastExists(p)
        \/ saveTemporaryFile_unlink(p)
        \/ saveTemporaryFile_rename(p)

SpecWindows == Init /\ [][NextWindows]_vars

(*************************************************************************)
(* The editor set up on its own: lines 174-204 applied to a command      *)
(* line, an environment and a disk.                                      *)
(*************************************************************************)
Editings == {None, "sublime", "npp", "vim", "notepad"}

\* os.environ built from the variables that are set
Var(name, values) == {<<>>} \cup {name :> v : v \in values}

Overrides ==
    { <<>>,
      ("SUBLIME_EDITOR" :> <<"/x/my-editor">>) @@ ("NOTEPADPP_EDITOR" :> <<"/x/npp">>)
          @@ ("EDITOR" :> <<"/x/vi">>),
      "EDITOR" :> <<"/x/vi">>,
      ("SUBLIME_EDITOR" :> <<>>) @@ ("EDITOR" :> <<>>) }

SearchPaths(system) ==
    IF system = "Windows"
    THEN { <<>>, <<"D:\\tools">>, <<"D:\\empty", ";", "D:\\tools">> }
    ELSE { <<>>, <<"/bin">>, <<"/opt", ":", "/bin">>, <<"/opt", "/", ":", ":", "/bin">> }

ArgStrings ==
    { <<>>, <<"-a">>, <<"-a", " ", "-b">>, <<"-a", " ", " ", "-b">> }

Environs(system) ==
    { o @@ d @@ s @@ a :
        o \in Overrides,
        d \in Var("SystemDrive", { <<"C:">> }),
        s \in Var("PATH", SearchPaths(system)),
        a \in Var("EDITOR_ARGS", ArgStrings) }

DiskFiles(system) ==
    IF system = "Windows"
    THEN { <<"C:", "\\", "Program Files", "\\", "Sublime Text 2", "\\", "sublime_text.exe">>,
           <<"C:", "\\", "Program Files (x86)", "\\", "Sublime Text 3", "\\", "sublime_text.exe">>,
           <<"D:\\tools", "\\", "sublime_text.exe">>,
           <<"D:\\tools", "\\", "vim.exe">> }
    ELSE { <<"/bin", "/", "subl">>, <<"/opt", "/", "subl">>, <<"subl">>,
           <<"/bin", "/", "vim">> }

Disks(system) ==
    { [files |-> f, oserr |-> e] :
        f \in SUBSET DiskFiles(system),
        e \in { {}, {CHOOSE x \in DiskFiles(system) : x[Len(x)] \notin {"vim", "vim.exe"}} } }

\* run hands to editUpdate the command lines that name an editor
SetupCmdEnvs ==
    { c \in [force : {FALSE}, editor : {NoStr, <<"myeditor">>}, editing : Editings,
             gui : {FALSE}] :
        Truthy(c.editor) \/ c.editing # None }

InitSetup ==
    /\ tmp = NoFile
    /\ last = NoFile
    /\ inv = [p \in Procs |-> Idle]
    /\ invocations = 0
    /\ rin = NoSetup
    /\ rout = <<>>
    /\ plugin = NoPlugin

\* the command line, the environment and the disk of one call
chooseSetup ==
    /\ rin = NoSetup
    /\ \E system \in Systems :
        \E environ \in Environs(system), disk \in Disks(system), c \in SetupCmdEnvs :
            rin' = [system |-> system, environ |-> environ, disk |-> disk, cmdenv |-> c]
    /\ UNCHANGED <<tmp, last, inv, invocations, rout, plugin>>

applyEditorSetup ==
    /\ rin # NoSetup
    /\ rout = <<>>
    /\ rout' = <<editorSetup(rin.cmdenv, rin.environ, rin.system, rin.disk)>>
    /\ UNCHANGED <<tmp, last, inv, invocations, rin, plugin>>

NextSetup == chooseSetup \/ applyEditorSetup

SpecSetup == InitSetup /\ [][NextSetup]_vars

(*************************************************************************)
(* Properties.                                                           *)
(*************************************************************************)
Ended(p) == inv[p].pc = "done"
EditorPath(p) == inv[p].pc # "idle" /\ ~IsGuided(inv[p])

\* subprocess.call was made and gave no exit status
LaunchFailed(p) == inv[p].launches # <<>> /\ inv[p].result = NoResult
\* the editor returned a status other than 0
ExitFailed(p) == inv[p].result \notin {NoResult, 0}
\* the import was called on the editor path and line 270 was not reached
ImportFailed(p) == EditorPath(p) /\ inv[p].imports # <<>> /\ Truthy(inv[p].tmpPath)
\* the invocation came to the call of getTemporaryPath
ReachedAcquisition(p) ==
    IF IsGuided(inv[p]) THEN inv[p].cmdenv.gui ELSE inv[p].located.raised = NoExc

\* C1: an editor-path invocation that ended because the editor could not
\* be launched, exited non-zero or the import raised leaves prices.last
\* in place and no prices.tmp, whether or not prices.last existed before.
C1_FatalOutcomeLeavesBackup ==
    \A p \in Procs :
        (Ended(p) /\ EditorPath(p)
            /\ (LaunchFailed(p) \/ ExitFailed(p) \/ ImportFailed(p)))
        => (last.exists /\ ~tmp.exists)

C1_Witness ==
    \E p \in Procs :
        /\ Ended(p) /\ EditorPath(p) /\ ExitFailed(p)
        /\ ~inv[p].last0.exists /\ last.exists /\ ~tmp.exists

\* C2: when the import raises on the editor path, that exception is what
\* the invocation ends with, the import was called once, and prices.last
\* holds what the operator left in prices.tmp: the edit of this
\* invocation, not the snapshot and not the previous backup.
C2_ImportFailureKeepsEdits ==
    \A p \in Procs :
        (Ended(p) /\ ImportFailed(p))
        => /\ inv[p].exc = Exc("ImportError", "", <<>>)
           /\ Len(inv[p].imports) = 1
           /\ last = inv[p].left
           /\ last = [exists |-> TRUE, content |-> Content("edit", inv[p].id)]

C2_Witness ==
    \E p \in Procs :
        /\ Ended(p) /\ ImportFailed(p)
        /\ inv[p].last0.exists
        /\ last # inv[p].last0
        /\ last.content = Content("edit", inv[p].id)

\* C3: when the editor exits with 0 and the combined timestamp after the
\* edit differs from the one before, smaller ones included, the import is
\* called exactly once, with the path of prices.tmp, and if it returns
\* prices.tmp is gone when the invocation ends.
C3_ChangeImportedOnce ==
    \A p \in Procs :
        (Ended(p) /\ inv[p].result = 0
            /\ inv[p].postStamp \notin {NoStamp, inv[p].preStamp})
        => /\ inv[p].imports = <<TmpName>>
           /\ (inv[p].exc = NoExc => ~tmp.exists)

C3_Witness ==
    \E p \in Procs :
        /\ Ended(p) /\ inv[p].result = 0
        /\ inv[p].postStamp # NoStamp /\ inv[p].postStamp < inv[p].preStamp
        /\ inv[p].imports = <<TmpName>>
        /\ inv[p].exc = NoExc /\ ~tmp.exists

\* C4: when the editor exits with 0 and the combined timestamp after the
\* edit equals the one before, the import is not called, prices.tmp is
\* deleted and prices.last is as it was before the invocation.
C4_NoChangeNoImport ==
    \A p \in Procs :
        (Ended(p) /\ inv[p].result = 0
            /\ inv[p].postStamp # NoStamp /\ inv[p].postStamp = inv[p].preStamp)
        => /\ inv[p].imports = <<>>
           /\ inv[p].exc = NoExc
           /\ ~tmp.exists
           /\ last = inv[p].last0

C4_Witness ==
    \E p \in Procs :
        /\ Ended(p) /\ inv[p].result = 0
        /\ inv[p].postStamp # NoStamp /\ inv[p].postStamp = inv[p].preStamp
        /\ inv[p].imports = <<>>
        /\ ~tmp.exists /\ ~last.exists

\* C5: when prices.tmp exists and force is unset, getTemporaryPath never
\* returns: it raises TemporaryFileExistsError in editUpdate and in
\* guidedUpdate, prices.tmp keeps its content, prices.last is not touched
\* and neither the dump nor the editor nor the import is invoked.
C5_ExistingFileRejected ==
    \A p \in Procs :
        (inv[p].pc # "idle" /\ inv[p].tmp0.exists /\ ~inv[p].cmdenv.force)
        => /\ ~inv[p].acquired
           /\ tmp.exists /\ Held(tmp) = inv[p].tmp0
           /\ last = inv[p].last0
           /\ inv[p].dumps = 0 /\ inv[p].launches = <<>> /\ inv[p].imports = <<>>
           /\ (Ended(p) /\ ReachedAcquisition(p)
                => inv[p].exc.type = "TemporaryFileExistsError")

C5_Witness ==
    \E p \in Procs :
        /\ Ended(p) /\ EditorPath(p) /\ ReachedAcquisition(p)
        /\ inv[p].tmp0.exists /\ ~inv[p].cmdenv.force
        /\ inv[p].exc.type = "TemporaryFileExistsError"
        /\ tmp.exists

\* C6: with force unset, at most one invocation at a time is past
\* getTemporaryPath and not yet finished.
C6_OneInvocationAtATime ==
    \A p \in Procs, q \in Procs :
        (p # q /\ InProgress(p) /\ inv[p].acquired)
        => ~(InProgress(q) /\ inv[q].acquired)

\* C7: an invocation that began with no prices.tmp, or that got past
\* getTemporaryPath, ends with no prices.tmp, whatever its outcome.
C7_RotationOnEveryExit ==
    \A p \in Procs :
        (Ended(p) /\ (~inv[p].tmp0.exists \/ inv[p].acquired))
        => ~tmp.exists

C7_Witness ==
    \E p \in Procs :
        /\ Ended(p) /\ inv[p].acquired
        /\ inv[p].exc.type = "DumpError"
        /\ ~tmp.exists
        /\ last = [exists |-> TRUE, content |-> Content("partial", inv[p].id)]

\* C8: when the editor returns a status N other than 0, the invocation
\* ends with a CommandLineError whose message carries N, the editor was
\* launched once, the second stat was not made and the import was not
\* called, even if the operator saved the file.
C8_NonZeroExitFails ==
    \A p \in Procs :
        (Ended(p) /\ ExitFailed(p))
        => /\ inv[p].exc.type = "CommandLineError"
           /\ inv[p].exc.detail = << <<ToString(inv[p].result)>> >>
           /\ Len(inv[p].launches) = 1
           /\ inv[p].postStamp = NoStamp
           /\ inv[p].imports = <<>>

C8_Witness ==
    \E p \in Procs :
        /\ Ended(p) /\ inv[p].result = 1
        /\ inv[p].left = [exists |-> TRUE, content |-> Content("edit", inv[p].id)]
        /\ inv[p].exc.detail = << <<"1">> >>
        /\ inv[p].imports = <<>>

\* C9: when the editor cannot be started, the invocation ends with the
\* CommandLineError that names the command line, and the import is not
\* called.
C9_LaunchFailureIsCommandLineError ==
    \A p \in Procs :
        (Ended(p) /\ LaunchFailed(p))
        => /\ inv[p].exc = Exc("CommandLineError", "Unable to launch requested editor",
                               inv[p].launches[1])
           /\ inv[p].imports = <<>>

\* C10: when the override variable of the editor is set, getEditorPaths
\* returns its value as it is and tests no candidate for existence.
C10_OverrideWins ==
    (rout # <<>> /\ rout[1].located.called
        /\ editorSpec(rin.cmdenv.editing).envVar \in DOMAIN rin.environ)
    => /\ rout[1].located.raised = NoExc
       /\ rout[1].located.value = rin.environ[editorSpec(rin.cmdenv.editing).envVar]
       /\ rout[1].located.probes = <<>>

C10_Witness ==
    /\ rout # <<>> /\ rout[1].located.called
    /\ rin.cmdenv.editing = "sublime"
    /\ "PATH" \in DOMAIN rin.environ /\ rin.environ["PATH"] = <<"/bin">>
    /\ <<"/bin", "/", "subl">> \in rin.disk.files
    /\ "SUBLIME_EDITOR" \in DOMAIN rin.environ
    /\ <<"/x/my-editor">> \notin rin.disk.files
    /\ rout[1].located.value = <<"/x/my-editor">>
    /\ rout[1].editor = <<"/x/my-editor">>

(*************************************************************************)
(* Properties of the editor set up on its own (SpecSetup).               *)
(*************************************************************************)
SetupDone == rout # <<>>
\* getEditorPaths was called and the override variable of the editor is unset
NoOverride ==
    /\ SetupDone /\ rout[1].located.called
    /\ editorSpec(rin.cmdenv.editing).envVar \notin DOMAIN rin.environ

\* the directories of the claim: on Windows, for each root and each install
\* folder, drive\root\folder; then the directories of the search path
InstallDirs(root) ==
    LET folders == editorSpec(rin.cmdenv.editing).windowsFolders
    IN  IF rin.system = "Windows" /\ "SystemDrive" \in DOMAIN rin.environ
        THEN [j \in 1..Len(folders) |->
                rin.environ["SystemDrive"] \o <<"\\", root, "\\">> \o folders[j]]
        ELSE <<>>

CandidateDirs ==
    InstallDirs("Program Files") \o InstallDirs("Program Files (x86)")
        \o (IF "PATH" \in DOMAIN rin.environ
            THEN split(rin.environ["PATH"], IF rin.system = "Windows" THEN ";" ELSE ":")
            ELSE <<>>)

Candidates ==
    LET exe == IF rin.system = "Windows"
               THEN editorSpec(rin.cmdenv.editing).winExe
               ELSE editorSpec(rin.cmdenv.editing).nixExe
    IN  [i \in 1..Len(CandidateDirs) |-> join(rin.system, CandidateDirs[i], exe)]

\* the existence test of a candidate succeeds
Exists(candidate) == candidate \in rin.disk.files \ rin.disk.oserr

\* C11: with no override set, the candidates are the install folders (on
\* Windows) followed by the search-path directories, in order; the first
\* candidate that exists is returned, and when none exists the call fails
\* with the CommandLineError that names the override variable.
C11_FirstExistingCandidate ==
    NoOverride =>
        LET found == {i \in 1..Len(Candidates) : Exists(Candidates[i])}
            r == rout[1].located
        IN  IF found = {}
            THEN /\ r.raised.type = "CommandLineError"
                 /\ r.raised.detail[2] = <<editorSpec(rin.cmdenv.editing).envVar>>
                 /\ r.probes = Candidates
            ELSE LET first == CHOOSE i \in found : \A j \in found : i <= j
                 IN  /\ r.raised = NoExc
                     /\ r.value = Candidates[first]
                     /\ r.probes = SubSeq(Candidates, 1, first)

\* C12: a call of getEditorPaths returns or fails with the editor-not-found
\* CommandLineError, whichever environment entries are missing.
C12_MissingEntriesNotFatal ==
    (SetupDone /\ rout[1].located.called)
    => \/ rout[1].located.raised = NoExc
       \/ /\ rout[1].located.raised.type = "CommandLineError"
          /\ rout[1].located.raised.msg = "Unable to locate editor"

\* the whitespace-separated tokens of an argument string
Tokens(str) == SelectSeq(split(str, " "), LAMBDA t : t # <<>>)

\* C18: the command line of the editor is the executable, the default
\* arguments of the editor, one argument per whitespace-separated token of
\* EDITOR_ARGS in order, and the absolute path of prices.tmp last; no empty
\* argument is passed.
C18_ArgumentVector ==
    (SetupDone /\ rout[1].raised = NoExc)
    => LET cmd == editorCommandLine(rout[1].editor, rout[1].editorArgs, AbsoluteTmp)
           defaults == IF rin.cmdenv.editing = "sublime" THEN << <<"--wait">> >> ELSE <<>>
           extra == IF "EDITOR_ARGS" \in DOMAIN rin.environ
                    THEN Tokens(rin.environ["EDITOR_ARGS"])
                    ELSE <<>>
       IN  /\ cmd = <<rout[1].editor>> \o defaults \o extra \o <<AbsoluteTmp>>
           /\ \A i \in 2..(Len(cmd) - 1) : cmd[i] # <<>>

(*************************************************************************)
(* Properties of the files (Spec).                                       *)
(*************************************************************************)
\* C13: while saveTemporaryFile replaces a prices.last that existed before,
\* there is no state in which prices.last does not exist.
C13_BackupReplacedAtomically ==
    \A p \in Procs :
        (inv[p].pc \in {"saveTemporaryFile", "saveTemporaryFile_last",
                        "saveTemporaryFile_unlink", "saveTemporaryFile_rename"}
            /\ inv[p].last0.exists)
        => last.exists

\* states from which the invocation has returned from getTemporaryPath or
\* has ended after calling it
AfterAcquisition(p) ==
    /\ ReachedAcquisition(p)
    /\ inv[p].pc \notin {"idle", "editorSetup", "getTemporaryPath",
                         "getTemporaryPath_unlink"}

\* C14: when prices.tmp exists and force is set, getTemporaryPath returns,
\* the old content is neither in prices.tmp nor in prices.last afterwards,
\* and the file the editor is launched on holds the dump of this invocation.
C14_ForceDiscardsStaleFile ==
    \A p \in Procs :
        (inv[p].tmp0.exists /\ inv[p].cmdenv.force /\ AfterAcquisition(p))
        => /\ inv[p].acquired
           /\ tmp.exists => tmp.content # inv[p].tmp0.content
           /\ last.exists => last.content # inv[p].tmp0.content
           /\ inv[p].pc = "call"
                => tmp.exists /\ tmp.content = Content("dump", inv[p].id)

C14_Witness ==
    \E p \in Procs :
        /\ inv[p].tmp0.exists /\ inv[p].cmdenv.force
        /\ inv[p].pc = "editing" /\ inv[p].launches # <<>>
        /\ tmp.exists /\ tmp.content = Content("dump", inv[p].id)
        /\ last = inv[p].last0

\* C15: an invocation that got the temporary path and ended without an
\* exception, on the editor path or the GUI path, has deleted prices.tmp
\* and left prices.last as it was.
C15_SuccessDeletes ==
    \A p \in Procs :
        (Ended(p) /\ inv[p].acquired /\ inv[p].exc = NoExc)
        => (~tmp.exists /\ last = inv[p].last0)

\* editUpdate looks an editor up only for an editing mode given without an
\* explicit editor
NeedsLookup(cmdenv) ==
    ~Truthy(cmdenv.editor) /\ cmdenv.editing \in {"sublime", "npp", "vim"}

C20_BackupOnlyByRotation ==
    \A p \in Procs :
        /\ (inv[p].pc # "idle" /\ last # inv[p].last0)
            => /\ inv[p].acquired
               /\ inv[p].pc \in {"saveTemporaryFile_rename", "done"}
               /\ last.exists => last.content[2] = ToString(inv[p].id)
        /\ (Ended(p) /\ \/ inv[p].exc.type = "TemporaryFileExistsError"
                        \/ ~inv[p].acquired
                        \/ EditorPath(p) /\ inv[p].exc = NoExc)
            => last = inv[p].last0
        /\ (Ended(p) /\ inv[p].located.raised # NoExc)
            => (~inv[p].acquired /\ Held(tmp) = inv[p].tmp0)

C20_Witness ==
    \E p \in Procs :
        /\ Ended(p) /\ inv[p].located.raised # NoExc
        /\ inv[p].cmdenv.force
        /\ inv[p].tmp0.exists /\ tmp.exists
        /\ inv[p].last0.exists /\ last = inv[p].last0

(*************************************************************************)
(* Import plugins, plugins/__init__.py.  plugin is the plugin instance   *)
(* of one import: the methods its class overrides (impl), whether the    *)
(* caller skips the check for new data (skip), the lifecycle state, the  *)
(* calls made in the current run with their outcomes (calls), the        *)
(* exception that ended the run (exc) and the number of runs.            *)
(*************************************************************************)
MaxRuns == 2

\* lines 1-4
PluginException(msg) == Exc("PluginException", msg, <<>>)

Methods == {"isExpectingData", "prepareData", "processData"}

NoValue == "NoValue"

PluginReturned(value) == [raised |-> NoExc, value |-> value]

PluginRaised(exc) == [raised |-> exc, value |-> NoValue]

\* lines 52-57
isExpectingData == PluginRaised(PluginException("Not implemented"))

\* lines 60-67
prepareData == PluginRaised(PluginException("Not implemented"))

\* lines 70-75
processData == PluginRaised(PluginException("Not implemented"))

\* the errors a plugin raises for its data: PluginException is the base
\* class of the exceptions plugins throw (lines 1-4)
DataErrors == {PluginException("No data available")}

\* what a method a plugin class overrides may do, by the docstrings of
\* lines 53-56, 61-66 and 71-74: return its value or raise a plugin error
Overridden(method) ==
    {PluginReturned(v) : v \in IF method = "processData" THEN {"None"}
                                                        ELSE {"True", "False"}}
        \cup {PluginRaised(e) : e \in DataErrors}

\* a call of a method on an instance of a class derived from
\* ImportPluginBase
Call(self, method) ==
    IF method \in self.impl
    THEN Overridden(method)
    ELSE CASE method = "isExpectingData" -> {isExpectingData}
           [] method = "prepareData" -> {prepareData}
           [] method = "processData" -> {processData}

Terminals == {"NoDataExpected", "NoDataPrepared", "Processed"}

RunOver(self) == self.state \in Terminals \/ self.exc # NoExc

\* the state after a call that was made in state from
After(from, method, outcome) ==
    IF outcome.raised # NoExc THEN from
    ELSE CASE method = "isExpectingData" ->
                IF outcome.value = "True" THEN "DataExpected" ELSE "NoDataExpected"
           [] method = "prepareData" ->
                IF outcome.value = "True" THEN "DataPrepared" ELSE "NoDataPrepared"
           [] method = "processData" -> "Processed"

Called(self, method, outcome) ==
    With(self, [state |-> After(self.state, method, outcome),
                exc |-> outcome.raised,
                calls |-> Append(self.calls,
                                 [method |-> method, outcome |-> outcome,
                                  state |-> After(self.state, method, outcome)])])

InitPlugin ==
    /\ tmp = NoFile
    /\ last = NoFile
    /\ inv = [p \in Procs |-> Idle]
    /\ invocations = 0
    /\ rin = NoSetup
    /\ rout = <<>>
    /\ \E impl \in SUBSET Methods : plugin = With(NoPlugin, [impl |-> impl])

\* the user invokes the plugin
invokePlugin ==
    /\ plugin.state = "NoPlugin" \/ RunOver(plugin)
    /\ plugin.runs < MaxRuns
    /\ \E skip \in BOOLEAN :
        plugin' = With(plugin, [state |-> "Unchecked", skip |-> skip, calls |-> <<>>,
                                exc |-> NoExc, runs |-> plugin.runs + 1])
    /\ UNCHANGED <<tmp, last, inv, invocations, rin, rout>>

\* td starts by calling isExpectingData
callIsExpectingData ==
    /\ plugin.state = "Unchecked" /\ ~RunOver(plugin)
    /\ ~plugin.skip
    /\ \E outcome \in Call(plugin, "isExpectingData") :
        plugin' = Called(plugin, "isExpectingData", outcome)
    /\ UNCHANGED <<tmp, last, inv, invocations, rin, rout>>

\* mutant: prepareData is called whatever isExpectingData returned
callPrepareData_unchecked ==
    /\ plugin.state \in {"DataExpected", "NoDataExpected"}
         \/ (plugin.state = "Unchecked" /\ plugin.skip)
    /\ plugin.exc = NoExc
    /\ \E outcome \in Call(plugin, "prepareData") :
        plugin' = Called(plugin, "prepareData", outcome)
    /\ UNCHANGED <<tmp, last, inv, invocations, rin, rout>>

\* next prepareData is called, after the check or to force a fetch
callPrepareData ==
    /\ plugin.state = "DataExpected" \/ (plugin.state = "Unchecked" /\ plugin.skip)
    /\ ~RunOver(plugin)
    /\ \E outcome \in Call(plugin, "prepareData") :
        plugin' = Called(plugin, "prepareData", outcome)
    /\ UNCHANGED <<tmp, last, inv, invocations, rin, rout>>

\* finally, when prepareData returned True, processData is called
callProcessData ==
    /\ plugin.state = "DataPrepared" /\ ~RunOver(plugin)
    /\ \E outcome \in Call(plugin, "processData") :
        plugin' = Called(plugin, "processData", outcome)
    /\ UNCHANGED <<tmp, last, inv, invocations, rin, rout>>

NextPlugin ==
    \/ invokePlugin
    \/ callIsExpectingData
    \/ callPrepareData
    \/ callProcessData

SpecPlugin == InitPlugin /\ [][NextPlugin]_vars

(*************************************************************************)
(* Properties of import plugins (SpecPlugin).                            *)
(*************************************************************************)
\* C16: a call of isExpectingData, prepareData or processData that the
\* plugin does not implement raises, returns no value, and the error it
\* raises is of another kind than the errors plugins raise for their data.
C16_NotImplementedIsDistinct ==
    \A i \in 1..Len(plugin.calls) :
        plugin.calls[i].method \notin plugin.impl
        => /\ plugin.calls[i].outcome.raised # NoExc
           /\ plugin.calls[i].outcome.value = NoValue
           /\ \A e \in DataErrors : plugin.calls[i].outcome.raised.type # e.type

Rank(method) ==
    CASE method = "isExpectingData" -> 1
      [] method = "prepareData" -> 2
      [] method = "processData" -> 3

\* the calls of a run are in the order isExpectingData, prepareData,
\* processData; processData follows a prepareData that returned True;
\* prepareData follows an isExpectingData that returned True or no check
\* at all when the caller skipped it; no call follows a terminal state
LifecycleOrder ==
    LET calls == plugin.calls
    IN  /\ \A i, j \in 1..Len(calls) :
                i < j => Rank(calls[i].method) < Rank(calls[j].method)
        /\ \A j \in 1..Len(calls) :
            /\ calls[j].method = "processData"
                => /\ j > 1
                   /\ calls[j - 1].method = "prepareData"
                   /\ calls[j - 1].outcome = PluginReturned("True")
            /\ calls[j].method = "prepareData"
                => IF j = 1 THEN plugin.skip
                   ELSE /\ calls[j - 1].method = "isExpectingData"
                        /\ calls[j - 1].outcome = PluginReturned("True")
            /\ calls[j].state \in Terminals => j = Len(calls)
        /\ plugin.state \in Terminals
            => \A method \in Methods : ~ENABLED
                    /\ \/ callIsExpectingData \/ callPrepareData \/ callProcessData
                    /\ plugin'.calls[Len(plugin'.calls)].method = method

\* the run has ended: the caller makes no further call in it
PluginRunEnded ==
    /\ plugin.state # "NoPlugin"
    /\ ~ENABLED (callIsExpectingData \/ callPrepareData \/ callProcessData)

\* C17 as stated: the calls are in lifecycle order and a run ends in one of
\* the terminal states NoDataExpected, NoDataPrepared and Processed.
C17_RunEndsTerminal ==
    /\ LifecycleOrder
    /\ PluginRunEnded => plugin.state \in Terminals

\* C17: the calls are in lifecycle order; a run in which no call raised
\* ends in one of the terminal states NoDataExpected, NoDataPrepared and
\* Processed; a run in which a call raised ends at that call, in none of
\* the terminal states.
C17_Lifecycle ==
    /\ LifecycleOrder
    /\ PluginRunEnded
        => IF plugin.exc = NoExc
           THEN plugin.state \in Terminals
           ELSE /\ plugin.state \notin Terminals
                /\ plugin.calls # <<>>
                /\ plugin.calls[Len(plugin.calls)].outcome.raised = plugin.exc
    /\ \A i \in 1..Len(plugin.calls) :
            plugin.calls[i].outcome.raised # NoExc => i = Len(plugin.calls)

C17_Witness ==
    /\ PluginRunEnded
    /\ Len(plugin.calls) = 3
    /\ plugin.exc # NoExc
    /\ plugin.state = "DataPrepared"

=============================================================================
